---- MODULE Spec2Model ----
(***************************************************************************)
(* Checkpointed extraction of security events.                             *)
(*                                                                         *)
(* Two programs are modelled:                                              *)
(*   - the AED extraction CLI, c42seceventcli/aed/main.py (Spec);          *)
(*   - the alerts commands, code42cli/cmds/alerts.py (SpecAlerts).         *)
(*                                                                         *)
(* Time is measured in days.  A timestamp is a natural number, "now" is    *)
(* the instant Now, and a date argument is given as "N days ago".          *)
(* An event is identified by its position in the remote dataset, which is  *)
(* the sequence of the events' timestamps in the order the remote API      *)
(* returns them.                                                           *)
(***************************************************************************)
EXTENDS Integers, Sequences, FiniteSets, TLC

\* ------------------------------------------------------------------ bounds
MaxEvents == 3          \* events in the remote dataset
MaxEventAge == 3        \* the oldest event is this many days old
PageSize == 2           \* records per page of the remote query

\* --------------------------------------------------------------- constants
LOOKBACK_DAYS == 90     \* timedelta(days=90)

None == 0 - 1           \* Python's None, outside the range of timestamps
NoDestination == "None"

Now == 2 * LOOKBACK_DAYS

Range(s) == {s[i] : i \in 1..Len(s)}

Min(a, b) == IF a <= b THEN a ELSE b

RECURSIVE SeqMax(_)
SeqMax(s) == IF Len(s) = 1 THEN s[1]
             ELSE LET m == SeqMax(Tail(s)) IN IF s[1] >= m THEN s[1] ELSE m

RECURSIVE Filter(_, _, _, _)
\* the positions i, in order from position i0, of the events of ds inside [lo, hi]
Filter(ds, i0, lo, hi) ==
    IF i0 > Len(ds) THEN <<>>
    ELSE IF lo <= ds[i0] /\ ds[i0] <= hi
         THEN <<i0>> \o Filter(ds, i0 + 1, lo, hi)
         ELSE Filter(ds, i0 + 1, lo, hi)

\* ------------------------------------------------------------------- state
VARIABLES
    args,          \* the parsed command line of the current run
    pc,            \* the statement of main() the run is at
    exit_code,     \* None while running, then the process's exit status
    exited_at,     \* the function that ended the run with exit(1), or ""
    sink_error,    \* the error in the run's sink configuration, or ""
    store_created, \* the run constructed an AEDCursorStore
    start,         \* the store's value when the run started
    store,         \* AEDCursorStore: the stored insertion timestamp, or None
    handlers,      \* FileEventHandlers: which cursor hooks are attached to the store
    logged,        \* the events written to the sink in this run, in order
    dataset,       \* the remote dataset: the events' timestamps, as returned
    remaining,     \* the events of the query not yet fetched
    extractCall,   \* the arguments extractor.extract was called with, or NoCall
    window,        \* the query window the extractor resolved
    lastPage,      \* the last page handed to the response handler
    trace,         \* the store and extractor operations of this run, in order
    errors,        \* calls of handlers.handle_error in this run
    prev,          \* what the previous run left behind
    \* ---- the alerts commands
    a_pc,          \* the statement the alerts command is at
    a_cmd,         \* the command and its arguments
    cursors,       \* AlertCursorStore: per profile, per checkpoint name, a cursor
    a_before,      \* the stores when the command started
    a_handlers,    \* the handlers of the run: the store and checkpoint they use
    extractor,     \* the AlertExtractor: created, called, its time range filter
    a_remaining,   \* the alerts of the query not yet fetched
    TOTAL_EVENTS,  \* handlers.TOTAL_EVENTS
    ERRORED,       \* errors.ERRORED
    no_results     \* "no results" was reported

vars == <<args, pc, exit_code, exited_at, sink_error, store_created, start, store, handlers, logged, dataset, remaining,
          extractCall, window, lastPage, trace, errors, prev,
          a_pc, a_cmd, cursors, a_before, a_handlers, extractor, a_remaining,
          TOTAL_EVENTS, ERRORED, no_results>>

aedVars == <<args, pc, exit_code, exited_at, sink_error, store_created, start, store, handlers, logged,
             remaining, extractCall, window, lastPage, trace, errors, prev>>

alertVars == <<a_pc, a_cmd, cursors, a_before, a_handlers, extractor, a_remaining,
               TOTAL_EVENTS, ERRORED, no_results>>

\* ------------------------------------------------------------------ inputs
BeginDates == {LOOKBACK_DAYS + 1, LOOKBACK_DAYS, MaxEventAge, 1}
EndDates == {0, 2}
DestinationTypes == {"stdout", "file", "server"}
Destinations == {NoDestination, "dest"}
OutputFormats == {"JSON", "CEF", "XML"}
Accounts == {"None", "name"}

\* the arguments the run keeps reading to its end; the sink and account
\* arguments are inputs of the one step that reads them
ArgSpace ==
    [begin_date : BeginDates,
     end_date : EndDates,
     record_cursor : BOOLEAN,
     clear_cursor : BOOLEAN]

\* the alerts commands' inputs
Profiles == {"p1", "p2"}
CheckpointNames == {"a", "b"}
Commands == {"clear_checkpoint", "search", "send_to"}

CommandSpace ==
    [command : {"clear_checkpoint"},
     profile : Profiles,
     checkpoint_name : CheckpointNames,
     use_checkpoint : {"None"},
     begin : {None},
     end : {None},
     advanced_query : {FALSE}]
    \cup
    [command : {"search", "send_to"},
     profile : Profiles,
     checkpoint_name : {"None"},
     use_checkpoint : CheckpointNames \cup {"None"},
     begin : {None, MaxEventAge},
     end : {None, 1},
     advanced_query : BOOLEAN]

NoCommand == [command |-> "none", profile |-> "p1", checkpoint_name |-> "None",
              use_checkpoint |-> "None", begin |-> None, end |-> None,
              advanced_query |-> FALSE]
NoAlertHandlers == [cursor |-> "None", checkpoint |-> "None"]
NoExtractor == [created |-> FALSE, called |-> "", filter |-> <<>>]

EventTimes == (Now - MaxEventAge)..(Now - 1)

\* the datasets: at most MaxEvents events, in the order of their timestamps
Datasets ==
    {ds \in UNION {[1..n -> EventTimes] : n \in 0..MaxEvents} :
        \A i \in 1..(Len(ds) - 1) : ds[i] <= ds[i + 1]}

NoArgs == [begin_date |-> 1, end_date |-> 0, record_cursor |-> FALSE,
           clear_cursor |-> FALSE]

NoHandlers == [record_cursor_position |-> FALSE, get_cursor_position |-> FALSE]
NoCall == [called |-> FALSE, min_timestamp |-> None, max_timestamp |-> None]
NoWindow == [min_timestamp |-> None, max_timestamp |-> None]
NoPage == [handled |-> FALSE, has_key |-> TRUE, events |-> <<>>, written |-> <<>>, ok |-> TRUE,
           failAt |-> 0, before |-> None]
NoPrev == [outcome |-> "none", begin_date |-> 0, end_date |-> 0,
           persisted |-> FALSE]

\* ---------------------------------------------------------- pure functions

\* common.parse_timestamp: a date given as "N days ago" resolves to a timestamp
parse_timestamp(date) == Now - date

\* _parse_min_timestamp with the boundary itself rejected (<= for <)
_parse_min_timestamp_inclusive(begin_date) ==
    LET min_timestamp == parse_timestamp(begin_date)
        boundary == Now - LOOKBACK_DAYS
    IN  [exit |-> min_timestamp <= boundary, min_timestamp |-> min_timestamp]

\* _parse_min_timestamp: exit(1) when --begin lies before the 90-day boundary
_parse_min_timestamp(begin_date) ==
    LET min_timestamp == parse_timestamp(begin_date)
        boundary == Now - LOOKBACK_DAYS
    IN  [exit |-> min_timestamp < boundary, min_timestamp |-> min_timestamp]

\* the error in a sink configuration, "" when it has none: a destination given
\* for stdout, none given for file or server, an unsupported output format, a
\* server host that does not resolve, a file path that cannot be opened
SinkError(destination_type, destination, output_format, outcome) ==
    IF destination_type = "stdout" /\ destination # NoDestination
    THEN "destination for stdout"
    ELSE IF destination_type \in {"file", "server"} /\ destination = NoDestination
    THEN "missing destination"
    ELSE IF output_format \notin {"JSON", "CEF"}
    THEN "unsupported format"
    ELSE IF outcome \in {"gaierror", "AttributeError"}
    THEN "unresolvable host"
    ELSE IF outcome = "IOError"
    THEN "unopenable path"
    ELSE ""

\* _verify_destination_args without the check of stdout
_verify_destination_args_no_stdout(destination_type, destination) ==
    \/ destination_type = "file" /\ destination = NoDestination
    \/ destination_type = "server" /\ destination = NoDestination

\* _verify_destination_args: TRUE when the run exits with status 1
_verify_destination_args(destination_type, destination) ==
    \/ destination_type = "stdout" /\ destination # NoDestination
    \/ destination_type = "file" /\ destination = NoDestination
    \/ destination_type = "server" /\ destination = NoDestination

\* _get_log_formatter: the formatter, or "exit" for an unsupported format
_get_log_formatter(output_format) ==
    IF output_format = "JSON" THEN "AEDDictToJSONFormatter"
    ELSE IF output_format = "CEF" THEN "AEDDictToCEFFormatter"
    ELSE "exit"

\* what common.get_logger can do for a destination type
LoggerOutcomes(destination_type) ==
    IF destination_type = "server" THEN {"ok", "gaierror", "AttributeError"}
    ELSE IF destination_type = "file" THEN {"ok", "IOError"}
    ELSE {"ok"}

\* _get_logger: the logger, or "exit" when common.get_logger raised
_get_logger(outcome) ==
    IF outcome \in {"AttributeError", "gaierror"} THEN "exit"
    ELSE IF outcome = "IOError" THEN "exit"
    ELSE "logger"

\* _set_up_cursor_store with only the write hook attached
_set_up_cursor_store_no_get(record_cursor, clear_cursor, h, st) ==
    IF record_cursor \/ clear_cursor
    THEN [handlers |-> IF record_cursor
                       THEN [record_cursor_position |-> TRUE,
                             get_cursor_position |-> FALSE]
                       ELSE h,
          store |-> IF clear_cursor THEN None ELSE st,
          ops |-> IF clear_cursor THEN <<"reset">> ELSE <<>>,
          created |-> TRUE]
    ELSE [handlers |-> h, store |-> st, ops |-> <<>>, created |-> FALSE]

\* _set_up_cursor_store with only the read hook attached
_set_up_cursor_store_no_record(record_cursor, clear_cursor, h, st) ==
    IF record_cursor \/ clear_cursor
    THEN [handlers |-> IF record_cursor
                       THEN [record_cursor_position |-> FALSE,
                             get_cursor_position |-> TRUE]
                       ELSE h,
          store |-> IF clear_cursor THEN None ELSE st,
          ops |-> IF clear_cursor THEN <<"reset">> ELSE <<>>,
          created |-> TRUE]
    ELSE [handlers |-> h, store |-> st, ops |-> <<>>, created |-> FALSE]

\* _set_up_cursor_store with the reset nested under record_cursor
_set_up_cursor_store_reset_nested(record_cursor, clear_cursor, h, st) ==
    IF record_cursor \/ clear_cursor
    THEN [handlers |-> IF record_cursor
                       THEN [record_cursor_position |-> TRUE,
                             get_cursor_position |-> TRUE]
                       ELSE h,
          store |-> IF clear_cursor /\ record_cursor THEN None ELSE st,
          ops |-> IF clear_cursor /\ record_cursor THEN <<"reset">> ELSE <<>>,
          created |-> TRUE]
    ELSE [handlers |-> h, store |-> st, ops |-> <<>>, created |-> FALSE]

\* _set_up_cursor_store with the hooks attached inside the outer if
_set_up_cursor_store_hooks_on_clear(record_cursor, clear_cursor, h, st) ==
    IF record_cursor \/ clear_cursor
    THEN [handlers |-> [record_cursor_position |-> TRUE,
                        get_cursor_position |-> TRUE],
          store |-> IF clear_cursor THEN None ELSE st,
          ops |-> IF clear_cursor THEN <<"reset">> ELSE <<>>,
          created |-> TRUE]
    ELSE [handlers |-> h, store |-> st, ops |-> <<>>, created |-> FALSE]

\* _set_up_cursor_store with the reset left out
_set_up_cursor_store_no_reset(record_cursor, clear_cursor, h, st) ==
    IF record_cursor \/ clear_cursor
    THEN [handlers |-> IF record_cursor
                       THEN [record_cursor_position |-> TRUE,
                             get_cursor_position |-> TRUE]
                       ELSE h,
          store |-> st,
          ops |-> <<>>,
          created |-> TRUE]
    ELSE [handlers |-> h, store |-> st, ops |-> <<>>, created |-> FALSE]

\* _set_up_cursor_store: the handlers, the store and the store operations done
_set_up_cursor_store(record_cursor, clear_cursor, h, st) ==
    IF record_cursor \/ clear_cursor
    THEN [handlers |-> IF record_cursor
                       THEN [record_cursor_position |-> TRUE,
                             get_cursor_position |-> TRUE]
                       ELSE h,
          store |-> IF clear_cursor THEN None ELSE st,
          ops |-> IF clear_cursor THEN <<"reset">> ELSE <<>>,
          created |-> TRUE]
    ELSE [handlers |-> h, store |-> st, ops |-> <<>>, created |-> FALSE]

\* handle_response with the failing write caught and passed over (try/except: pass)
handle_response_swallow(response, failAt) ==
    IF response.has_key
    THEN IF failAt \in 1..Len(response.events)
         THEN [written |-> SubSeq(response.events, 1, failAt - 1)
                           \o SubSeq(response.events, failAt + 1, Len(response.events)),
               ok |-> TRUE]
         ELSE [written |-> response.events, ok |-> TRUE]
    ELSE [written |-> <<>>, ok |-> TRUE]

\* handle_response that writes the rest of the page before it raises
handle_response_continue(response, failAt) ==
    IF response.has_key
    THEN IF failAt \in 1..Len(response.events)
         THEN [written |-> SubSeq(response.events, 1, failAt - 1)
                           \o SubSeq(response.events, failAt + 1, Len(response.events)),
               ok |-> FALSE]
         ELSE [written |-> response.events, ok |-> TRUE]
    ELSE [written |-> <<>>, ok |-> TRUE]

RECURSIVE Reverse(_)
Reverse(q) == IF q = <<>> THEN <<>> ELSE Reverse(Tail(q)) \o <<Head(q)>>

\* handle_response that walks the page from its last event (reversed(events))
handle_response_reversed(response, failAt) ==
    IF response.has_key
    THEN IF failAt \in 1..Len(response.events)
         THEN [written |-> SubSeq(Reverse(response.events), 1, failAt - 1),
               ok |-> FALSE]
         ELSE [written |-> Reverse(response.events), ok |-> TRUE]
    ELSE [written |-> <<>>, ok |-> TRUE]

\* handle_response: logger.info(event) for each event of the page, in order.
\* failAt = 0: every write succeeds; failAt = i: the i-th logger.info raises,
\* and the exception leaves the loop and the handler.
handle_response(response, failAt) ==
    IF response.has_key
    THEN IF failAt \in 1..Len(response.events)
         THEN [written |-> SubSeq(response.events, 1, failAt - 1), ok |-> FALSE]
         ELSE [written |-> response.events, ok |-> TRUE]
    ELSE [written |-> <<>>, ok |-> TRUE]


\* ------------------------------------------------------- alerts: functions

\* AlertCursorStore.get, .replace and .delete of one profile's store
CursorGet(st, name) == st[name]
CursorReplace(st, name, value) == [st EXCEPT ![name] = value]
CursorDelete(st, name) == [st EXCEPT ![name] = None]

\* _get_alert_cursor_store with one store for every profile
_get_alert_cursor_store_shared(profile_name) == "p1"

\* _get_alert_cursor_store: the store scoped to the profile name
_get_alert_cursor_store(profile_name) == profile_name

\* clear_checkpoint that resets the profile's store (reset() for delete(name))
clear_checkpoint_reset(cs, profile_name, checkpoint_name) ==
    [cs EXCEPT ![profile_name] = [n \in CheckpointNames |-> None]]

\* clear_checkpoint: _get_alert_cursor_store(profile).delete(checkpoint_name)
clear_checkpoint(cs, profile_name, checkpoint_name) ==
    LET store_of == _get_alert_cursor_store(profile_name)
    IN  [cs EXCEPT ![store_of] = CursorDelete(cs[store_of], checkpoint_name)]

\* search and send_to: cursor = _get_alert_cursor_store(...) if use_checkpoint else None
cursor_for(profile_name, use_checkpoint) ==
    IF use_checkpoint # "None" THEN _get_alert_cursor_store(profile_name) ELSE "None"

\* ext.create_handlers and ext.create_send_to_handlers: the hooks use the store
\* passed, under the checkpoint name
create_handlers(cursor, use_checkpoint) ==
    [cursor |-> cursor, checkpoint |-> IF cursor # "None" THEN use_checkpoint ELSE "None"]

\* _call_extractor: the extractor method called and the time range filter appended
_call_extractor(begin, end, advanced_query) ==
    IF advanced_query
    THEN [created |-> TRUE, called |-> "extract_advanced", filter |-> <<>>]
    ELSE IF begin # None \/ end # None
         THEN [created |-> TRUE, called |-> "extract", filter |-> <<begin, end>>]
         ELSE [created |-> TRUE, called |-> "extract", filter |-> <<>>]

\* the argument of handle_no_events without the error flag
no_events_unflagged(total_events, errored) == total_events = 0

\* the argument search and send_to give handle_no_events
no_events(total_events, errored) == total_events = 0 /\ ~errored

\* the window of the query: the time range filter and the stored checkpoint
AlertWindow(filter, h, cs) ==
    LET lo == IF filter # <<>> /\ filter[1] # None THEN parse_timestamp(filter[1]) ELSE 0
        hi == IF filter # <<>> /\ filter[2] # None THEN parse_timestamp(filter[2]) ELSE Now
        at == IF h.cursor # "None" THEN CursorGet(cs[h.cursor], h.checkpoint) ELSE None
    IN  [min_timestamp |-> IF at # None /\ at > lo THEN at ELSE lo,
         max_timestamp |-> hi]

\* ------------------------------------------------------------------- Init
AlertsInit ==
    /\ a_pc = "idle"
    /\ a_cmd = NoCommand
    /\ cursors = [p \in Profiles |-> [n \in CheckpointNames |-> None]]
    /\ a_before = cursors
    /\ a_handlers = NoAlertHandlers
    /\ extractor = NoExtractor
    /\ a_remaining = <<>>
    /\ TOTAL_EVENTS = 0
    /\ ERRORED = FALSE
    /\ no_results = FALSE

Init ==
    /\ args = NoArgs
    /\ pc = "idle"
    /\ exit_code = None
    /\ exited_at = ""
    /\ sink_error = ""
    /\ store_created = FALSE
    /\ start = None
    /\ store = None
    /\ handlers = NoHandlers
    /\ logged = <<>>
    /\ dataset \in Datasets
    /\ remaining = <<>>
    /\ extractCall = NoCall
    /\ window = NoWindow
    /\ lastPage = NoPage
    /\ trace = <<>>
    /\ errors = 0
    /\ prev = NoPrev
    /\ AlertsInit

\* ---------------------------------------------------------------- actions
Exit(code, where) ==
    /\ pc' = "done"
    /\ exit_code' = code
    /\ exited_at' = where

\* main, line 25: args = aed_args.get_args(), a new process
StartRun ==
    /\ pc = "idle"
    /\ args' \in ArgSpace
    /\ pc' = "create_handlers"
    /\ start' = store
    /\ UNCHANGED <<exit_code, exited_at, sink_error, store_created, store, handlers,
                   logged, dataset, remaining, extractCall, window, lastPage, trace,
                   errors, prev, alertVars>>

\* the process ends: its memory is gone, the store and the dataset stay
ProcessExit ==
    /\ pc = "done"
    /\ pc' = "idle"
    /\ args' = NoArgs
    /\ exit_code' = None
    /\ exited_at' = ""
    /\ sink_error' = ""
    /\ store_created' = FALSE
    /\ start' = None
    /\ handlers' = NoHandlers
    /\ logged' = <<>>
    /\ remaining' = <<>>
    /\ extractCall' = NoCall
    /\ window' = NoWindow
    /\ lastPage' = NoPage
    /\ trace' = <<>>
    /\ errors' = 0
    /\ prev' = IF extractCall.called /\ args.record_cursor
               THEN [outcome |-> IF exit_code = 0 THEN "ok" ELSE "failed",
                     begin_date |-> args.begin_date,
                     end_date |-> args.end_date,
                     persisted |-> "replace" \in Range(trace)]
               ELSE NoPrev
    /\ UNCHANGED <<store, dataset, alertVars>>

\* main, lines 26-31: _verify_destination_args, then _create_handlers
CreateHandlers ==
    /\ pc = "create_handlers"
    /\ \E destination_type \in DestinationTypes, destination \in Destinations,
          output_format \in OutputFormats :
          \E outcome \in LoggerOutcomes(destination_type) :
             /\ sink_error' = SinkError(destination_type, destination,
                                        output_format, outcome)
             /\ IF _verify_destination_args(destination_type, destination)
                THEN Exit(1, "_verify_destination_args")
                ELSE IF _get_log_formatter(output_format) = "exit"
                THEN Exit(1, "_get_log_formatter")
                ELSE IF _get_logger(outcome) = "exit"
                THEN Exit(1, "_get_logger")
                ELSE /\ pc' = "set_up_cursor_store"
                     /\ UNCHANGED <<exit_code, exited_at>>
    /\ UNCHANGED <<args, store_created, start, store, handlers, logged, dataset,
                   remaining, extractCall, window, lastPage, trace, errors, prev,
                   alertVars>>

\* main, lines 32-34
SetUpCursorStore ==
    /\ pc = "set_up_cursor_store"
    /\ LET r == _set_up_cursor_store(args.record_cursor, args.clear_cursor,
                                     handlers, store)
       IN  /\ handlers' = r.handlers
           /\ store' = r.store
           /\ trace' = trace \o r.ops
           /\ store_created' = r.created
    /\ pc' = "create_sdk"
    /\ UNCHANGED <<args, start, exit_code, exited_at, sink_error, logged, dataset, remaining,
                   extractCall, window, lastPage, errors, prev, alertVars>>

\* main, line 35: _create_sdk_from_args
CreateSdk ==
    /\ pc = "create_sdk"
    /\ \E c42_authority_url \in Accounts, c42_username \in Accounts,
          authenticated \in BOOLEAN :
          IF c42_authority_url = "None"
          THEN Exit(1, "_get_server_from_args") /\ errors' = errors
          ELSE IF c42_username = "None"
          THEN Exit(1, "_get_username_from_args") /\ errors' = errors
          ELSE IF ~authenticated
          THEN Exit(1, "_create_sdk_from_args") /\ errors' = errors + 1
          ELSE /\ pc' = "extract"
               /\ UNCHANGED <<exit_code, exited_at, errors>>
    /\ UNCHANGED <<args, sink_error, store_created, start, store, handlers, logged,
                   dataset, remaining, extractCall, window, lastPage, trace, prev,
                   alertVars>>

\* AEDEventExtractor.extract, its first step: the cursor position the handlers
\* give replaces min_timestamp
EffectiveMin(h, st, min_timestamp) ==
    IF h.get_cursor_position /\ st # None THEN st ELSE min_timestamp

\* main, line 43: _extract, up to the call of extractor.extract
Extract ==
    /\ pc = "extract"
    /\ LET r == _parse_min_timestamp(args.begin_date)
           max_timestamp == parse_timestamp(args.end_date)
           lo == EffectiveMin(handlers, store, r.min_timestamp)
       IN  IF r.exit
           THEN /\ Exit(1, "_parse_min_timestamp")
                /\ UNCHANGED <<extractCall, window, remaining, trace>>
           ELSE /\ extractCall' = [called |-> TRUE,
                                   min_timestamp |-> r.min_timestamp,
                                   max_timestamp |-> max_timestamp]
                /\ window' = [min_timestamp |-> lo, max_timestamp |-> max_timestamp]
                /\ remaining' = Filter(dataset, 1, lo, max_timestamp)
                /\ trace' = trace \o (IF handlers.get_cursor_position
                                      THEN <<"extract", "get">>
                                      ELSE <<"extract">>)
                /\ pc' = "paging"
                /\ UNCHANGED <<exit_code, exited_at>>
    /\ UNCHANGED <<args, sink_error, store_created, start, store, handlers, logged,
                   dataset, lastPage, errors, prev, alertVars>>

\* the cursor after a page: the greatest timestamp of the page, advanced by one unit
NextCursor(ds, events) == SeqMax([i \in 1..Len(events) |-> ds[events[i]]]) + 1

\* AEDEventExtractor.extract, one turn of its loop: fetch a page, hand it to
\* handlers.handle_response, then record the cursor position
Page ==
    /\ pc = "paging"
    /\ \E transport_error \in BOOLEAN, failAt \in 0..PageSize, has_key \in BOOLEAN :
          LET events == SubSeq(remaining, 1, Min(PageSize, Len(remaining)))
              response == [has_key |-> has_key, events |-> events]
              r == handle_response(response, failAt)
          IN  /\ failAt <= Len(events)
              /\ has_key \/ events = <<>>
              /\ ~transport_error \/ (failAt = 0 /\ has_key)
              /\ IF transport_error
                 THEN /\ Exit(1, "extract")
                      /\ errors' = errors + 1
                      /\ UNCHANGED <<store, logged, remaining, lastPage, trace>>
                 ELSE IF events = <<>>
                 THEN /\ Exit(0, "")
                      /\ lastPage' = [handled |-> TRUE, has_key |-> has_key,
                                      events |-> events,
                                      written |-> r.written, ok |-> r.ok,
                                      failAt |-> failAt, before |-> store]
                      /\ logged' = logged \o r.written
                      /\ UNCHANGED <<store, remaining, trace, errors>>
                 ELSE /\ lastPage' = [handled |-> TRUE, has_key |-> has_key,
                                      events |-> events,
                                      written |-> r.written, ok |-> r.ok,
                                      failAt |-> failAt, before |-> store]
                      /\ logged' = logged \o r.written
                      /\ IF r.ok
                         THEN /\ remaining' = SubSeq(remaining, Len(events) + 1,
                                                     Len(remaining))
                              /\ IF handlers.record_cursor_position
                                 THEN /\ store' = NextCursor(dataset, events)
                                      /\ trace' = trace \o <<"replace">>
                                 ELSE UNCHANGED <<store, trace>>
                              /\ UNCHANGED <<pc, exit_code, exited_at, errors>>
                         ELSE /\ Exit(1, "handle_response")
                              /\ errors' = errors + 1
                              /\ UNCHANGED <<store, remaining, trace>>
    /\ UNCHANGED <<args, sink_error, store_created, start, handlers, dataset,
                   extractCall, window, prev, alertVars>>

Next ==
    \/ StartRun
    \/ ProcessExit
    \/ CreateHandlers
    \/ SetUpCursorStore
    \/ CreateSdk
    \/ Extract
    \/ Page

Spec == Init /\ [][Next]_vars

\* ---------------------------------------------------------- alerts: actions

\* a new process runs one alerts command
AlertsStart ==
    /\ a_pc = "idle"
    /\ a_cmd' \in CommandSpace
    /\ a_pc' = "command"
    /\ a_before' = cursors
    /\ UNCHANGED <<cursors, a_handlers, extractor, a_remaining, TOTAL_EVENTS,
                   ERRORED, no_results, dataset>>
    /\ UNCHANGED aedVars

\* the process ends: its memory is gone, the stores stay
AlertsExit ==
    /\ a_pc = "done"
    /\ a_pc' = "idle"
    /\ a_cmd' = NoCommand
    /\ a_before' = cursors
    /\ a_handlers' = NoAlertHandlers
    /\ extractor' = NoExtractor
    /\ a_remaining' = <<>>
    /\ TOTAL_EVENTS' = 0
    /\ ERRORED' = FALSE
    /\ no_results' = FALSE
    /\ UNCHANGED <<cursors, dataset>>
    /\ UNCHANGED aedVars

\* alerts clear-checkpoint CHECKPOINT-NAME
ClearCheckpoint ==
    /\ a_pc = "command"
    /\ a_cmd.command = "clear_checkpoint"
    /\ cursors' = clear_checkpoint(cursors, a_cmd.profile, a_cmd.checkpoint_name)
    /\ a_pc' = "done"
    /\ UNCHANGED <<a_cmd, a_before, a_handlers, extractor, a_remaining,
                   TOTAL_EVENTS, ERRORED, no_results, dataset>>
    /\ UNCHANGED aedVars

\* search, lines 213-225: the formatter, the cursor store, the handlers
Search ==
    /\ a_pc = "command"
    /\ a_cmd.command = "search"
    /\ a_handlers' = create_handlers(cursor_for(a_cmd.profile, a_cmd.use_checkpoint),
                                     a_cmd.use_checkpoint)
    /\ a_pc' = "_call_extractor"
    /\ UNCHANGED <<a_cmd, cursors, a_before, extractor, a_remaining, TOTAL_EVENTS,
                   ERRORED, no_results, dataset>>
    /\ UNCHANGED aedVars

\* send_to, lines 258-262: the logger for the server, the cursor store, the handlers
SendTo ==
    /\ a_pc = "command"
    /\ a_cmd.command = "send_to"
    /\ \E logger_created \in BOOLEAN :
          IF logger_created
          THEN /\ a_handlers' = create_handlers(
                                    cursor_for(a_cmd.profile, a_cmd.use_checkpoint),
                                    a_cmd.use_checkpoint)
               /\ a_pc' = "_call_extractor"
          ELSE /\ a_pc' = "done"
               /\ UNCHANGED a_handlers
    /\ UNCHANGED <<a_cmd, cursors, a_before, extractor, a_remaining, TOTAL_EVENTS,
                   ERRORED, no_results, dataset>>
    /\ UNCHANGED aedVars

\* _call_extractor, up to the first page of the extractor's loop
CallExtractor ==
    /\ a_pc = "_call_extractor"
    /\ LET e == _call_extractor(a_cmd.begin, a_cmd.end, a_cmd.advanced_query)
           w == AlertWindow(e.filter, a_handlers, cursors)
       IN  /\ extractor' = e
           /\ a_remaining' = Filter(dataset, 1, w.min_timestamp, w.max_timestamp)
    /\ a_pc' = "extracting"
    /\ UNCHANGED <<a_cmd, cursors, a_before, a_handlers, TOTAL_EVENTS, ERRORED,
                   no_results, dataset>>
    /\ UNCHANGED aedVars

\* AlertExtractor, one turn of its loop: fetch a page, hand it to the handlers,
\* record the checkpoint; an error goes to handlers.handle_error and ends the loop
AlertPage ==
    /\ a_pc = "extracting"
    /\ \E failed \in BOOLEAN :
          LET events == SubSeq(a_remaining, 1, Min(PageSize, Len(a_remaining)))
          IN  IF failed
              THEN /\ ERRORED' = TRUE
                   /\ a_pc' = "handle_no_events"
                   /\ UNCHANGED <<cursors, a_remaining, TOTAL_EVENTS>>
              ELSE IF events = <<>>
              THEN /\ a_pc' = "handle_no_events"
                   /\ UNCHANGED <<cursors, a_remaining, TOTAL_EVENTS, ERRORED>>
              ELSE /\ TOTAL_EVENTS' = TOTAL_EVENTS + Len(events)
                   /\ a_remaining' = SubSeq(a_remaining, Len(events) + 1,
                                            Len(a_remaining))
                   /\ cursors' =
                         IF a_handlers.cursor # "None"
                         THEN [cursors EXCEPT ![a_handlers.cursor] =
                                  CursorReplace(@, a_handlers.checkpoint,
                                                NextCursor(dataset, events))]
                         ELSE cursors
                   /\ UNCHANGED <<a_pc, ERRORED>>
    /\ UNCHANGED <<a_cmd, a_before, a_handlers, extractor, no_results, dataset>>
    /\ UNCHANGED aedVars

\* search, line 227, and send_to, line 264: handle_no_events(...)
HandleNoEvents ==
    /\ a_pc = "handle_no_events"
    /\ no_results' = no_events(TOTAL_EVENTS, ERRORED)
    /\ a_pc' = "done"
    /\ UNCHANGED <<a_cmd, cursors, a_before, a_handlers, extractor, a_remaining,
                   TOTAL_EVENTS, ERRORED, dataset>>
    /\ UNCHANGED aedVars

NextAlerts ==
    \/ AlertsStart
    \/ AlertsExit
    \/ ClearCheckpoint
    \/ Search
    \/ SendTo
    \/ CallExtractor
    \/ AlertPage
    \/ HandleNoEvents

SpecAlerts == Init /\ [][NextAlerts]_vars

\* ------------------------------------------------------------- properties

SinkConfigExits == {"_verify_destination_args", "_get_log_formatter", "_get_logger"}

\* the first position of op in the run's trace, 0 when it is not there
RECURSIVE Position(_, _, _)
Position(t, op, i) ==
    IF i > Len(t) THEN 0 ELSE IF t[i] = op THEN i ELSE Position(t, op, i + 1)

\* C1: with cursor recording enabled, the stored cursor differs from its value
\* before the last page handled only if the response handler wrote the whole
\* page and reported success; after a failed sink write the stored cursor is the
\* value it had before that page.
C1_CursorAfterWholePage ==
    (args.record_cursor /\ lastPage.handled) =>
        /\ (store # lastPage.before) =>
               (lastPage.ok /\ lastPage.written = lastPage.events)
        /\ (lastPage.failAt \in 1..Len(lastPage.events)) => store = lastPage.before

\* C1 witness: a run that recorded the cursor ended on a sink failure in the
\* middle of a page, part of which was written.
C1_Witness ==
    /\ pc = "done"
    /\ args.record_cursor
    /\ exited_at = "handle_response"
    /\ lastPage.failAt = 2
    /\ lastPage.written # <<>>
    /\ store = lastPage.before

\* C2: a run whose --begin resolves to a timestamp before now - 90 days never
\* calls extractor.extract and ends with a non-zero status; a run whose --begin
\* is within the boundary is not ended by the look-back validation, and once
\* past it has called extractor.extract with that timestamp.
C2_LookBackBoundary ==
    LET min_timestamp == parse_timestamp(args.begin_date)
        old == min_timestamp < Now - LOOKBACK_DAYS
    IN  (pc # "idle") =>
          /\ old => (~extractCall.called /\ (pc = "done" => exit_code = 1))
          /\ ~old =>
               /\ exited_at # "_parse_min_timestamp"
               /\ (pc = "paging" \/ exited_at \in {"extract", "handle_response"}
                     \/ (pc = "done" /\ exit_code = 0))
                     => (extractCall.called
                         /\ extractCall.min_timestamp = min_timestamp)

\* C2 witness: a run with --begin 91 days ago was ended by the validation.
C2_Witness ==
    /\ pc = "done"
    /\ args.begin_date = LOOKBACK_DAYS + 1
    /\ exited_at = "_parse_min_timestamp"
    /\ exit_code = 1
    /\ ~extractCall.called

\* the run follows a run that recorded a cursor and failed, and reads the cursor
ResumedRun ==
    /\ prev.outcome = "failed"
    /\ prev.persisted
    /\ args.record_cursor
    /\ ~args.clear_cursor
    /\ extractCall.called

RepeatedRun ==
    /\ prev.outcome = "ok"
    /\ args.record_cursor
    /\ ~args.clear_cursor
    /\ args.begin_date = prev.begin_date
    /\ args.end_date = prev.end_date
    /\ extractCall.called

\* C4: the second of two runs with the same checkpoint over a fixed dataset, the
\* first completed and no cursor clear in between, fetches and emits no event.
C4_SecondRunEmpty ==
    RepeatedRun => (remaining = <<>> /\ logged = <<>>)

\* C4 witness: the repeated run completed over a dataset that has events in the
\* window the arguments name.
C4_Witness ==
    /\ RepeatedRun
    /\ pc = "done"
    /\ exit_code = 0
    /\ start # None
    /\ Filter(dataset, 1, parse_timestamp(args.begin_date),
              parse_timestamp(args.end_date)) # <<>>
    /\ logged = <<>>

\* C5 as stated: in a run that records the cursor and finds one stored, --begin
\* is ignored: the look-back validation does not end the run, and the query
\* starts at the stored cursor.
C5_BeginIgnored ==
    (args.record_cursor /\ ~args.clear_cursor /\ start # None) =>
        /\ exited_at # "_parse_min_timestamp"
        /\ extractCall.called => window.min_timestamp = start

\* C6 as stated: every run started with clear_cursor executes reset(), and
\* before extractor.extract.
C6_Original ==
    args.clear_cursor =>
        /\ pc = "done" => Position(trace, "reset", 1) > 0
        /\ extractCall.called =>
               (Position(trace, "reset", 1) > 0
                /\ Position(trace, "reset", 1) < Position(trace, "extract", 1))

\* C6 as amended: every run started with clear_cursor that gets past the
\* destination check and the creation of the handlers executes reset(), as the
\* first operation on the store and before extractor.extract; a run that ends in
\* the destination check or in the creation of the handlers does not reset.
C6_ResetBeforeExtract ==
    args.clear_cursor =>
        /\ (pc \in {"create_sdk", "extract", "paging"}
              \/ (pc = "done" /\ exited_at \notin SinkConfigExits))
              => Position(trace, "reset", 1) = 1
        /\ extractCall.called =>
               (Position(trace, "reset", 1) = 1
                /\ Position(trace, "extract", 1) > 1)
        /\ (pc = "done" /\ exited_at \in SinkConfigExits) => trace = <<>>

\* C6 witness: a run with clear_cursor alone found a cursor stored, reset the
\* store and is extracting.
C6_Witness ==
    /\ args.clear_cursor
    /\ ~args.record_cursor
    /\ start # None
    /\ store = None
    /\ pc = "paging"
    /\ trace = <<"reset", "extract">>

\* C7: when the write of a record of a page fails, the handler reports failure
\* for the page, the run ends there, and no record of the page from the failed
\* one on is written.
C7_FailureStopsPage ==
    (lastPage.handled /\ lastPage.failAt \in 1..Len(lastPage.events)) =>
        /\ ~lastPage.ok
        /\ pc = "done" /\ exited_at = "handle_response"
        /\ lastPage.written = SubSeq(lastPage.events, 1, lastPage.failAt - 1)
        /\ \A j \in lastPage.failAt..Len(lastPage.events) :
               lastPage.events[j] \notin Range(logged)

\* C7 witness: the first write of a page of two records failed.
C7_Witness ==
    /\ lastPage.handled
    /\ lastPage.failAt = 1
    /\ Len(lastPage.events) = 2
    /\ logged = <<>>

\* an error was met in the alerts run: one reported to the handlers, or the
\* failure to create the logger of send_to
RunErrored == ERRORED \/ ~extractor.created

\* C8: a finished search or send_to run has reported "no results" exactly when
\* it processed no event and met no error.
C8_NoResultsIffEmptyAndClean ==
    (a_pc = "done" /\ a_cmd.command \in {"search", "send_to"}) =>
        (no_results <=> (TOTAL_EVENTS = 0 /\ ~RunErrored))

\* C8 witness: a run met an error before any event and did not report "no results".
C8_Witness ==
    /\ a_pc = "done"
    /\ a_cmd.command = "search"
    /\ ERRORED
    /\ TOTAL_EVENTS = 0
    /\ ~no_results

C10_EndBeforeBeginRejected ==
    (pc # "idle" /\ extractCall.called) =>
        ~(window.max_timestamp < window.min_timestamp)

\* C11: a run whose sink configuration has an error (a destination given for
\* stdout, none for file or server, an unsupported format, an unresolvable host,
\* an unopenable path) has ended with status 1 in the destination check or the
\* creation of the handlers, with no extractor called and nothing written.
C11_SinkErrorBeforeExtraction ==
    (sink_error # "") =>
        /\ pc = "done"
        /\ exit_code = 1
        /\ exited_at \in SinkConfigExits
        /\ ~extractCall.called
        /\ remaining = <<>>
        /\ logged = <<>>

\* C11 witness: a run whose server host did not resolve has ended with status 1.
C11_Witness ==
    /\ sink_error = "unresolvable host"
    /\ pc = "done"
    /\ exit_code = 1
    /\ exited_at = "_get_logger"

\* C12 as stated: a run that a failure ended has reported the failure through
\* handlers.handle_error.
C12_FailuresReported ==
    (pc = "done" /\ exit_code = 1) => errors >= 1

\* the sink received the records the handler wrote for the last page, last
\* and in that order, and no event twice in the run
SinkTookLastPage ==
    /\ Len(logged) >= Len(lastPage.written)
    /\ SubSeq(logged, Len(logged) - Len(lastPage.written) + 1, Len(logged))
           = lastPage.written
    /\ Cardinality(Range(logged)) = Len(logged)

\* C13 as stated: for a page with the events key the handler writes each record
\* of the page once, in the page's order; for a page without the key, nothing.
C13_Original ==
    lastPage.handled =>
        /\ SinkTookLastPage
        /\ lastPage.written = IF lastPage.has_key THEN lastPage.events ELSE <<>>

\* C13 as amended: for a page with the events key the handler writes each record
\* of the page once, in the page's order, up to the first write that fails: all
\* of them when no write fails, those before the failed one otherwise; for a
\* page without the key, nothing.
C13_PageWrittenInOrder ==
    lastPage.handled =>
        /\ SinkTookLastPage
        /\ lastPage.written =
              IF ~lastPage.has_key THEN <<>>
              ELSE IF lastPage.failAt \in 1..Len(lastPage.events)
                   THEN SubSeq(lastPage.events, 1, lastPage.failAt - 1)
                   ELSE lastPage.events

\* C13 witness: the second page of a run was written whole after a first page
\* of several records.
C13_Witness ==
    /\ lastPage.handled
    /\ lastPage.has_key
    /\ lastPage.ok
    /\ lastPage.events # <<>>
    /\ Len(logged) > Len(lastPage.events)
    /\ Len(logged) >= 3

\* the run is past _set_up_cursor_store
PastCursorStore ==
    \/ pc \in {"create_sdk", "extract", "paging"}
    \/ pc = "done" /\ exited_at \notin SinkConfigExits

\* C14: the cursor hooks are attached exactly when record_cursor is set; a run
\* with clear_cursor alone resets the store and then neither reads nor writes a
\* cursor; a run with neither flag never creates, resets, reads or writes the
\* store.
C14_HooksIffRecordCursor ==
    (pc # "idle") =>
        /\ PastCursorStore =>
               /\ handlers.record_cursor_position = args.record_cursor
               /\ handlers.get_cursor_position = args.record_cursor
        /\ ~PastCursorStore => handlers = NoHandlers
        /\ (args.clear_cursor /\ ~args.record_cursor /\ PastCursorStore) =>
               /\ store_created
               /\ trace \in {<<"reset">>, <<"reset", "extract">>}
               /\ store = None
        /\ (~args.clear_cursor /\ ~args.record_cursor) =>
               /\ ~store_created
               /\ trace \in {<<>>, <<"extract">>}
               /\ store = start

\* C14 witness: a run with clear_cursor alone reset a stored cursor, wrote
\* events and completed without storing a cursor.
C14_Witness ==
    /\ pc = "done"
    /\ exit_code = 0
    /\ args.clear_cursor
    /\ ~args.record_cursor
    /\ start # None
    /\ logged # <<>>
    /\ store = None
    /\ trace = <<"reset", "extract">>

\* the run ended in authentication or in the look-back validation of --begin
AbortedAfterCursorStore ==
    /\ pc = "done"
    /\ exited_at \in {"_get_server_from_args", "_get_username_from_args",
                      "_create_sdk_from_args", "_parse_min_timestamp"}

\* C15: a run with clear_cursor that ends in authentication or in the --begin
\* validation has reset the store and leaves it cleared; one that ends in the
\* destination check or the creation of the logger leaves the store as it was.
C15_ResetSurvivesAbort ==
    args.clear_cursor =>
        /\ AbortedAfterCursorStore =>
               (store = None /\ trace = <<"reset">> /\ ~extractCall.called)
        /\ (pc = "done" /\ exited_at \in SinkConfigExits) =>
               (store = start /\ trace = <<>> /\ ~store_created)

\* C15 witness: a run with clear_cursor and --begin 91 days ago found a cursor
\* stored and ended in the validation with the store cleared.
C15_Witness ==
    /\ args.clear_cursor
    /\ pc = "done"
    /\ exited_at = "_parse_min_timestamp"
    /\ exit_code = 1
    /\ start # None
    /\ store = None

\* the alerts run has created its handlers
HandlersCreated == a_pc \in {"_call_extractor", "extracting", "handle_no_events"}
                   \/ (a_pc = "done" /\ extractor.created)

\* C16: a search or send_to run without use_checkpoint gives its handlers no
\* cursor store and leaves every stored checkpoint as it was; a run with
\* use_checkpoint gives them the store of the current profile and leaves the
\* stores of the other profiles as they were.
C16_CheckpointOnlyOnRequest ==
    (a_cmd.command \in {"search", "send_to"}) =>
        /\ (a_cmd.use_checkpoint = "None") =>
               (a_handlers.cursor = "None" /\ cursors = a_before)
        /\ (a_cmd.use_checkpoint # "None") =>
               /\ HandlersCreated => a_handlers.cursor = a_cmd.profile
               /\ \A p \in Profiles :
                      p # a_cmd.profile => cursors[p] = a_before[p]

\* C16 witness: a search without use_checkpoint processed events while
\* checkpoints were stored, and a checkpoint is still what it was.
C16_Witness ==
    /\ a_pc = "done"
    /\ a_cmd.command = "search"
    /\ a_cmd.use_checkpoint = "None"
    /\ TOTAL_EVENTS > 0
    /\ \E n \in CheckpointNames : cursors[a_cmd.profile][n] # None
    /\ cursors = a_before

====
